---- MODULE Spec2Model ----
(***************************************************************************)
(* A model of the dataurl package (RFC 2397 data URLs for Go).             *)
(*                                                                         *)
(* A Go string and a []byte are both modelled as a sequence of byte values *)
(* (0..255).  Characters are written through Ord, so that ";" is the byte  *)
(* 59 of the source.                                                       *)
(***************************************************************************)
EXTENDS Integers, Sequences, FiniteSets, TLC

(* ------------------------------------------------------------------ *)
(* Characters                                                          *)
(* ------------------------------------------------------------------ *)

\* The printable ASCII characters, in code order from 32 (space) to 126 (~);
\* the grave accent (96) is spelled out.
Printable ==
  << " ", "!", "\"", "#", "$", "%", "&", "'", "(", ")", "*", "+", ",", "-", ".", "/",
     "0", "1", "2", "3", "4", "5", "6", "7", "8", "9", ":", ";", "<", "=", ">", "?",
     "@", "A", "B", "C", "D", "E", "F", "G", "H", "I", "J", "K", "L", "M", "N", "O",
     "P", "Q", "R", "S", "T", "U", "V", "W", "X", "Y", "Z", "[", "\\", "]", "^", "_",
     "grave", "a", "b", "c", "d", "e", "f", "g", "h", "i", "j", "k", "l", "m", "n", "o",
     "p", "q", "r", "s", "t", "u", "v", "w", "x", "y", "z", "{", "|", "}", "~" >>

\* The byte value of a printable character.
OrdTable == [c \in {Printable[i] : i \in 1..Len(Printable)} |->
               31 + (CHOOSE i \in 1..Len(Printable) : Printable[i] = c)]

Ord(c) == OrdTable[c]

\* A text literal: T(<<"a", "b">>) is the Go string "ab".
T(s) == [i \in 1..Len(s) |-> Ord(s[i])]

Bytes == 0..255

IsUpper(b) == b >= Ord("A") /\ b <= Ord("Z")
IsLower(b) == b >= Ord("a") /\ b <= Ord("z")
IsDigit(b) == b >= Ord("0") /\ b <= Ord("9")
IsAlnum(b) == IsUpper(b) \/ IsLower(b) \/ IsDigit(b)

\* s[from..] of Go, for a 1-based position.
Drop(s, k) == SubSeq(s, k + 1, Len(s))
Take(s, k) == SubSeq(s, 1, k)

RECURSIVE Flatten(_)
Flatten(ss) == IF ss = << >> THEN << >> ELSE Head(ss) \o Flatten(Tail(ss))

\* All sequences over S of length at most n.
RECURSIVE SeqsUpTo(_, _)
SeqsUpTo(S, n) ==
  IF n = 0 THEN { << >> }
  ELSE LET shorter == SeqsUpTo(S, n - 1)
       IN  shorter \cup { Append(s, x) : s \in shorter, x \in S }

(* ------------------------------------------------------------------ *)
(* rfc2397.go: Escape / Unescape, which call net/url                   *)
(* ------------------------------------------------------------------ *)

\* net/url ishex and unhex.
ishex(c) ==
  \/ IsDigit(c)
  \/ (c >= Ord("a") /\ c <= Ord("f"))
  \/ (c >= Ord("A") /\ c <= Ord("F"))

unhex(c) ==
  IF IsDigit(c) THEN c - Ord("0")
  ELSE IF c >= Ord("a") /\ c <= Ord("f") THEN c - Ord("a") + 10
  ELSE IF c >= Ord("A") /\ c <= Ord("F") THEN c - Ord("A") + 10
  ELSE 0

\* "0123456789ABCDEF"[d], the upper-case digit net/url's escape writes.
upperhex(d) == IF d < 10 THEN Ord("0") + d ELSE Ord("A") + (d - 10)

\* A mutant of shouldEscape: the parameter separator ';' is left as it is.
shouldEscapeKeepsSemicolon(c) ==
  IF IsAlnum(c) THEN FALSE
  ELSE IF c \in {Ord("-"), Ord("_"), Ord("."), Ord("~"), Ord(";")} THEN FALSE
  ELSE IF c \in {Ord("$"), Ord("&"), Ord("+"), Ord(":"), Ord("="), Ord("@")} THEN FALSE
  ELSE TRUE

\* A mutant of shouldEscape: '%' itself is left as it is.
shouldEscapeKeepsPercent(c) ==
  IF IsAlnum(c) THEN FALSE
  ELSE IF c \in {Ord("-"), Ord("_"), Ord("."), Ord("~"), Ord("%")} THEN FALSE
  ELSE IF c \in {Ord("$"), Ord("&"), Ord("+"), Ord(":"), Ord("="), Ord("@")} THEN FALSE
  ELSE TRUE

\* net/url shouldEscape(c, encodePathSegment): what url.PathEscape escapes.
\* Letters, digits and - _ . ~ are never escaped; of the reserved characters
\* $ & + , / : ; = ? @ a path segment escapes only / ; , ? ; every other byte
\* is escaped.
shouldEscape(c) ==
  IF IsAlnum(c) THEN FALSE
  ELSE IF c \in {Ord("-"), Ord("_"), Ord("."), Ord("~")} THEN FALSE
  ELSE IF c \in {Ord("$"), Ord("&"), Ord("+"), Ord(":"), Ord("="), Ord("@")} THEN FALSE
  ELSE TRUE

\* One byte as url.PathEscape writes it.
escapeByte(c) ==
  IF shouldEscape(c)
  THEN << Ord("%"), upperhex(c \div 16), upperhex(c % 16) >>
  ELSE << c >>

\* Escape(data []byte) string: url.PathEscape(string(data)).
Escape(data) == Flatten([i \in 1..Len(data) |-> escapeByte(data[i])])

\* EscapeString(s string) string: url.PathEscape(s).
EscapeString(s) == Escape(s)

\* net/url unescape(s, encodePathSegment), first pass: a '%' that is not
\* followed by two hexadecimal digits is an EscapeError.
RECURSIVE validEscapes(_)
validEscapes(s) ==
  IF s = << >> THEN TRUE
  ELSE IF Head(s) = Ord("%")
       THEN /\ Len(s) >= 3
            /\ ishex(s[2])
            /\ ishex(s[3])
            /\ validEscapes(Drop(s, 3))
       ELSE validEscapes(Tail(s))

\* A mutant of unescapeBytes: '+' becomes a space, as in a query component.
RECURSIVE unescapeBytesPlusAsSpace(_)
unescapeBytesPlusAsSpace(s) ==
  IF s = << >> THEN << >>
  ELSE IF Head(s) = Ord("%")
       THEN << unhex(s[2]) * 16 + unhex(s[3]) >> \o unescapeBytesPlusAsSpace(Drop(s, 3))
  ELSE IF Head(s) = Ord("+") THEN << Ord(" ") >> \o unescapeBytesPlusAsSpace(Tail(s))
  ELSE << Head(s) >> \o unescapeBytesPlusAsSpace(Tail(s))

\* Second pass: %XX becomes the byte; in a path segment '+' stays '+'.
RECURSIVE unescapeBytes(_)
unescapeBytes(s) ==
  IF s = << >> THEN << >>
  ELSE IF Head(s) = Ord("%")
       THEN << unhex(s[2]) * 16 + unhex(s[3]) >> \o unescapeBytes(Drop(s, 3))
       ELSE << Head(s) >> \o unescapeBytes(Tail(s))

\* Unescape(s string) ([]byte, error): url.PathUnescape(s).
Unescape(s) ==
  IF validEscapes(s)
  THEN [ok |-> TRUE, val |-> unescapeBytes(s), err |-> ""]
  ELSE [ok |-> FALSE, val |-> << >>, err |-> "invalid URL escape"]

\* UnescapeToString(s string) (string, error).
UnescapeToString(s) == Unescape(s)

(* ------------------------------------------------------------------ *)
(* encoding/base64, StdEncoding                                        *)
(* ------------------------------------------------------------------ *)

\* The alphabet "ABC...Zabc...z0123456789+/" at index v (0..63).
b64Char(v) ==
  IF v < 26 THEN Ord("A") + v
  ELSE IF v < 52 THEN Ord("a") + (v - 26)
  ELSE IF v < 62 THEN Ord("0") + (v - 52)
  ELSE IF v = 62 THEN Ord("+")
  ELSE Ord("/")

\* The decode map: the index of an alphabet character, -1 for any other byte.
b64Val(c) ==
  IF IsUpper(c) THEN c - Ord("A")
  ELSE IF IsLower(c) THEN c - Ord("a") + 26
  ELSE IF IsDigit(c) THEN c - Ord("0") + 52
  ELSE IF c = Ord("+") THEN 62
  ELSE IF c = Ord("/") THEN 63
  ELSE -1

\* base64.StdEncoding.EncodeToString: 3 bytes give 4 characters, the last
\* group is padded with '='.
RECURSIVE b64Encode(_)
b64Encode(d) ==
  IF d = << >> THEN << >>
  ELSE IF Len(d) = 1
       THEN << b64Char(d[1] \div 4), b64Char((d[1] % 4) * 16), Ord("="), Ord("=") >>
  ELSE IF Len(d) = 2
       THEN << b64Char(d[1] \div 4),
               b64Char((d[1] % 4) * 16 + d[2] \div 16),
               b64Char((d[2] % 16) * 4),
               Ord("=") >>
  ELSE << b64Char(d[1] \div 4),
          b64Char((d[1] % 4) * 16 + d[2] \div 16),
          b64Char((d[2] % 16) * 4 + d[3] \div 64),
          b64Char(d[3] % 64) >> \o b64Encode(Drop(d, 3))

\* Encoding.DecodeString drops every '\r' and '\n' of the input.
RECURSIVE b64StripNewlines(_)
b64StripNewlines(s) ==
  IF s = << >> THEN << >>
  ELSE IF Head(s) \in {10, 13} THEN b64StripNewlines(Tail(s))
  ELSE << Head(s) >> \o b64StripNewlines(Tail(s))

\* The quanta of 4 characters (newlines dropped): a full quantum gives 3
\* bytes; "xx==" gives 1 and "xxx=" gives 2 and must end the input; anything
\* else (a foreign character, padding elsewhere, a short last quantum) is a
\* CorruptInputError.  The decoder is not strict: trailing bits are ignored.
RECURSIVE b64DecodeQuanta(_)
b64DecodeQuanta(s) ==
  IF s = << >> THEN [ok |-> TRUE, val |-> << >>]
  ELSE IF Len(s) < 4 THEN [ok |-> FALSE, val |-> << >>]
  ELSE IF b64Val(s[1]) < 0 \/ b64Val(s[2]) < 0 THEN [ok |-> FALSE, val |-> << >>]
  ELSE IF s[3] = Ord("=")
       THEN IF s[4] = Ord("=") /\ Len(s) = 4
            THEN [ok |-> TRUE,
                  val |-> << b64Val(s[1]) * 4 + b64Val(s[2]) \div 16 >>]
            ELSE [ok |-> FALSE, val |-> << >>]
  ELSE IF b64Val(s[3]) < 0 THEN [ok |-> FALSE, val |-> << >>]
  ELSE IF s[4] = Ord("=")
       THEN IF Len(s) = 4
            THEN [ok |-> TRUE,
                  val |-> << b64Val(s[1]) * 4 + b64Val(s[2]) \div 16,
                             (b64Val(s[2]) % 16) * 16 + b64Val(s[3]) \div 4 >>]
            ELSE [ok |-> FALSE, val |-> << >>]
  ELSE IF b64Val(s[4]) < 0 THEN [ok |-> FALSE, val |-> << >>]
  ELSE LET rest == b64DecodeQuanta(Drop(s, 4))
       IN  IF rest.ok
           THEN [ok |-> TRUE,
                 val |-> << b64Val(s[1]) * 4 + b64Val(s[2]) \div 16,
                            (b64Val(s[2]) % 16) * 16 + b64Val(s[3]) \div 4,
                            (b64Val(s[3]) % 4) * 64 + b64Val(s[4]) >> \o rest.val]
           ELSE rest

\* base64.StdEncoding.DecodeString.
b64Decode(s) ==
  LET r == b64DecodeQuanta(b64StripNewlines(s))
  IN  IF r.ok THEN [ok |-> TRUE, val |-> r.val, err |-> ""]
      ELSE [ok |-> FALSE, val |-> << >>, err |-> "illegal base64 data"]

(* ------------------------------------------------------------------ *)
(* strconv.Unquote of a double-quoted Go string literal                *)
(* ------------------------------------------------------------------ *)

\* The value of the first n hexadecimal digits of s, or -1.
RECURSIVE hexValue(_, _, _)
hexValue(s, n, acc) ==
  IF n = 0 THEN acc
  ELSE IF s = << >> \/ ~ishex(Head(s)) THEN -1
  ELSE hexValue(Tail(s), n - 1, acc * 16 + unhex(Head(s)))

IsOctal(c) == c >= Ord("0") /\ c <= Ord("7")

\* utf8.AppendRune of a valid rune.
utf8Encode(r) ==
  IF r < 128 THEN << r >>
  ELSE IF r < 2048 THEN << 192 + (r \div 64), 128 + (r % 64) >>
  ELSE IF r < 65536
       THEN << 224 + (r \div 4096), 128 + ((r \div 64) % 64), 128 + (r % 64) >>
  ELSE << 240 + (r \div 262144), 128 + ((r \div 4096) % 64),
          128 + ((r \div 64) % 64), 128 + (r % 64) >>

\* utf8.ValidRune: at most U+10FFFF and no surrogate half.
ValidRune(r) == r >= 0 /\ r <= 1114111 /\ ~(r >= 55296 /\ r <= 57343)

\* The single-character escapes of a Go string literal.
simpleEscape(c) ==
  IF c = Ord("a") THEN 7
  ELSE IF c = Ord("b") THEN 8
  ELSE IF c = Ord("f") THEN 12
  ELSE IF c = Ord("n") THEN 10
  ELSE IF c = Ord("r") THEN 13
  ELSE IF c = Ord("t") THEN 9
  ELSE IF c = Ord("v") THEN 11
  ELSE IF c = Ord("\\") THEN Ord("\\")
  ELSE IF c = Ord("\"") THEN Ord("\"")
  ELSE -1

\* strconv.UnquoteChar(s, '"'), one character or escape of s (s is not
\* empty): the bytes it stands for and how many bytes of s it takes;
\* n = 0 is ErrSyntax.  An unescaped '"', a backslash at the end, \' and an
\* unknown escape such as \q are syntax errors; \n is a line feed.
unquoteChar(s) ==
  LET c == Head(s)
      bad == [n |-> 0, val |-> << >>]
  IN  IF c = Ord("\"") THEN bad
      ELSE IF c # Ord("\\") THEN [n |-> 1, val |-> << c >>]
      ELSE IF Len(s) <= 1 THEN bad
      ELSE LET e == s[2]
               rest == Drop(s, 2)
           IN  IF simpleEscape(e) >= 0 THEN [n |-> 2, val |-> << simpleEscape(e) >>]
               ELSE IF e = Ord("x")
                    THEN LET v == hexValue(rest, 2, 0)
                         IN  IF v < 0 THEN bad ELSE [n |-> 4, val |-> << v >>]
               ELSE IF e = Ord("u")
                    THEN LET v == hexValue(rest, 4, 0)
                         IN  IF v < 0 \/ ~ValidRune(v) THEN bad
                             ELSE [n |-> 6, val |-> utf8Encode(v)]
               ELSE IF e = Ord("U")
                    THEN LET v == hexValue(rest, 8, 0)
                         IN  IF v < 0 \/ ~ValidRune(v) THEN bad
                             ELSE [n |-> 10, val |-> utf8Encode(v)]
               ELSE IF IsOctal(e)
                    THEN IF Len(rest) < 2 \/ ~IsOctal(rest[1]) \/ ~IsOctal(rest[2])
                         THEN bad
                         ELSE LET v == (e - Ord("0")) * 64 + (rest[1] - Ord("0")) * 8
                                         + (rest[2] - Ord("0"))
                              IN  IF v > 255 THEN bad ELSE [n |-> 4, val |-> << v >>]
               ELSE bad

RECURSIVE unquoteChars(_)
unquoteChars(s) ==
  IF s = << >> THEN [ok |-> TRUE, val |-> << >>]
  ELSE LET c == unquoteChar(s)
       IN  IF c.n = 0 THEN [ok |-> FALSE, val |-> << >>]
           ELSE LET rest == unquoteChars(Drop(s, c.n))
                IN  IF rest.ok THEN [ok |-> TRUE, val |-> c.val \o rest.val]
                    ELSE rest

\* strconv.Unquote("\"" + inner + "\""): a raw line feed in the literal is a
\* syntax error, then every character goes through UnquoteChar.  Bytes from
\* 0x80 on are copied (the model's quoted values are ASCII, where Go's check
\* of the UTF-8 encoding changes nothing).
strconvUnquote(inner) ==
  IF \E i \in 1..Len(inner) : inner[i] = 10
  THEN [ok |-> FALSE, val |-> << >>, err |-> "invalid syntax"]
  ELSE LET r == unquoteChars(inner)
       IN  IF r.ok THEN [ok |-> TRUE, val |-> r.val, err |-> ""]
           ELSE [ok |-> FALSE, val |-> << >>, err |-> "invalid syntax"]

(* ------------------------------------------------------------------ *)
(* The lexer (lex.go): a state machine over the input, one state        *)
(* function per place of the grammar, run as a goroutine that sends its *)
(* items over an unbuffered channel and closes it when it stops.  The   *)
(* state functions follow section 4.2 of spec.md; the item kinds and    *)
(* the items of each test input are those of genTestTable.  Where the   *)
(* input ends before the comma the state machine stops without an item  *)
(* (spec.md section 9: the reference has no error for it, and parse     *)
(* reaches its "EOF not found" panic).  An empty rest after the comma   *)
(* gives no itemData (genTestTable, "data:,").                          *)
(* ------------------------------------------------------------------ *)

dataPrefix == T(<< "d", "a", "t", "a", ":" >>)
base64Word == T(<< "b", "a", "s", "e", "6", "4" >>)
charsetWord == T(<< "c", "h", "a", "r", "s", "e", "t" >>)

mediaSep == Ord("/")
paramSemicolon == Ord(";")
paramEqual == Ord("=")
dataComma == Ord(",")
stringQuote == Ord("\"")
backslash == Ord("\\")

ItemTypes ==
  { "itemError", "itemEOF", "itemDataPrefix", "itemMediaType", "itemMediaSep",
    "itemMediaSubType", "itemParamSemicolon", "itemParamAttr", "itemParamEqual",
    "itemLeftStringQuote", "itemRightStringQuote", "itemParamVal",
    "itemBase64Enc", "itemDataComma", "itemData" }

\* item{t, val}; the message of an itemError is kept apart in msg.
Item(t, val) == [t |-> t, val |-> val, msg |-> ""]
ErrorItem(msg) == [t |-> "itemError", val |-> << >>, msg |-> msg]

\* The characters of a media type or subtype: letters, digits and + - .
isMediaTypeChar(c) == IsAlnum(c) \/ c \in {Ord("+"), Ord("-"), Ord(".")}

\* The characters of a parameter name: letters, digits and -
isAttrChar(c) == IsAlnum(c) \/ c = Ord("-")

HasPrefix(s, pre) == Len(s) >= Len(pre) /\ Take(s, Len(pre)) = pre

\* An unquoted parameter value runs up to the next ';' or ','.
isUnquotedValChar(c) == c # paramSemicolon /\ c # dataComma

inClass(class, c) ==
  CASE class = "mediatype" -> isMediaTypeChar(c)
    [] class = "attr" -> isAttrChar(c)
    [] class = "value" -> isUnquotedValChar(c)

Max2(a, b) == IF a >= b THEN a ELSE b

\* The end of the run of characters of a class that starts after pos.
RECURSIVE runEnd(_, _, _)
runEnd(input, pos, class) ==
  IF pos < Len(input) /\ inClass(class, input[pos + 1])
  THEN runEnd(input, pos + 1, class)
  ELSE pos

\* Inside a quoted value, from pos: the position just before the closing
\* unescaped quote, or -1 when the input ends first.  A backslash takes the
\* following character with it.
RECURSIVE quotedEnd(_, _)
quotedEnd(input, pos) ==
  IF pos >= Len(input) THEN -1
  ELSE IF input[pos + 1] = stringQuote THEN pos
  ELSE IF input[pos + 1] = backslash
       THEN IF pos + 1 >= Len(input) THEN -1 ELSE quotedEnd(input, pos + 2)
  ELSE quotedEnd(input, pos + 1)

\* The lexer: its state function and how much of the input it has taken.
\* state = "closed": run() has returned and closed the items channel.
newLexer == [state |-> "lexBeforeDataPrefix", pos |-> 0]

Emit(item, state, pos) == [emit |-> TRUE, item |-> item, l |-> [state |-> state, pos |-> pos]]
LexError(msg, pos) == Emit(ErrorItem(msg), "closed", pos)
\* The input ends where a comma is still to come: the state machine stops
\* without a token, neither itemEOF nor itemError.
LexStop(pos) == [emit |-> FALSE, item |-> Item("itemEOF", << >>), l |-> [state |-> "closed", pos |-> pos]]

\* After a media subtype or a parameter value: ';' opens a parameter, ','
\* the data.
afterValueState(c) == IF c = paramSemicolon THEN "lexParamSemicolon" ELSE "lexDataComma"

\* A mutant of lexData: the itemData stops at the next ';'.
lexDataToSemicolon(input, pos) ==
  IF pos >= Len(input) THEN Emit(Item("itemEOF", << >>), "closed", pos)
  ELSE Emit(Item("itemData", SubSeq(input, pos + 1, Max2(pos + 1, runEnd(input, pos, "value")))),
            "lexEOF", Len(input))

\* After the comma: the rest of the input is one itemData, and when nothing
\* is left there is no itemData and the itemEOF comes at once (genTestTable,
\* "data:,").
lexData(input, pos) ==
  IF pos >= Len(input) THEN Emit(Item("itemEOF", << >>), "closed", pos)
  ELSE Emit(Item("itemData", Drop(input, pos)), "lexEOF", Len(input))

\* The next token of the lexer in state l, and the lexer after it.
RECURSIVE lexNext(_, _)
lexNext(input, l) ==
  LET pos == l.pos
      eof == pos >= Len(input)
      c == IF eof THEN -1 ELSE input[pos + 1]
      goto(st) == lexNext(input, [state |-> st, pos |-> pos])
  IN
  CASE l.state = "lexBeforeDataPrefix" ->
         IF HasPrefix(input, dataPrefix)
         THEN Emit(Item("itemDataPrefix", dataPrefix), "lexAfterDataPrefix", Len(dataPrefix))
         ELSE LexError("expected data: prefix", pos)
    [] l.state = "lexAfterDataPrefix" ->
         IF eof THEN LexStop(pos)
         ELSE IF c = paramSemicolon THEN goto("lexParamSemicolon")
         ELSE IF c = dataComma THEN goto("lexDataComma")
         ELSE IF isMediaTypeChar(c) THEN goto("lexMediaType")
         ELSE LexError("invalid character for media type", pos)
    [] l.state = "lexMediaType" ->
         LET e == runEnd(input, pos, "mediatype")
         IN  IF e >= Len(input) THEN LexStop(e)
             ELSE IF input[e + 1] = mediaSep
                  THEN Emit(Item("itemMediaType", SubSeq(input, pos + 1, e)), "lexMediaSep", e)
             ELSE LexError("invalid character for media type", e)
    [] l.state = "lexMediaSep" ->
         Emit(Item("itemMediaSep", << mediaSep >>), "lexMediaSubType", pos + 1)
    [] l.state = "lexMediaSubType" ->
         LET e == runEnd(input, pos, "mediatype")
         IN  IF e >= Len(input) THEN LexStop(e)
             ELSE IF e > pos /\ input[e + 1] \in {paramSemicolon, dataComma}
                  THEN Emit(Item("itemMediaSubType", SubSeq(input, pos + 1, e)),
                            afterValueState(input[e + 1]), e)
             ELSE LexError("invalid character for media subtype", e)
    [] l.state = "lexParamSemicolon" ->
         Emit(Item("itemParamSemicolon", << paramSemicolon >>), "lexParamAttr", pos + 1)
    [] l.state = "lexParamAttr" ->
         LET e == runEnd(input, pos, "attr")
             name == SubSeq(input, pos + 1, e)
         IN  IF e >= Len(input) THEN LexStop(e)
             ELSE IF name = base64Word /\ input[e + 1] = dataComma
                  THEN Emit(Item("itemBase64Enc", name), "lexDataComma", e)
             ELSE IF e > pos /\ input[e + 1] = paramEqual
                  THEN Emit(Item("itemParamAttr", name), "lexParamEqual", e)
             ELSE LexError("invalid character for parameter attribute", e)
    [] l.state = "lexParamEqual" ->
         Emit(Item("itemParamEqual", << paramEqual >>), "lexParamVal", pos + 1)
    [] l.state = "lexParamVal" ->
         IF eof THEN LexStop(pos)
         ELSE IF c = stringQuote
              THEN Emit(Item("itemLeftStringQuote", << stringQuote >>), "lexQuotedParamVal", pos + 1)
         ELSE LET e == runEnd(input, pos, "value")
              IN  IF e >= Len(input) THEN LexStop(e)
                  ELSE Emit(Item("itemParamVal", SubSeq(input, pos + 1, e)),
                            afterValueState(input[e + 1]), e)
    [] l.state = "lexQuotedParamVal" ->
         LET e == quotedEnd(input, pos)
         IN  IF e < 0 THEN LexStop(Len(input))
             ELSE Emit(Item("itemParamVal", SubSeq(input, pos + 1, e)), "lexRightStringQuote", e)
    [] l.state = "lexRightStringQuote" ->
         Emit(Item("itemRightStringQuote", << stringQuote >>), "lexAfterQuotedParamVal", pos + 1)
    [] l.state = "lexAfterQuotedParamVal" ->
         IF eof THEN LexStop(pos)
         ELSE IF c \in {paramSemicolon, dataComma} THEN goto(afterValueState(c))
         ELSE LexError("invalid character after parameter value", pos)
    [] l.state = "lexDataComma" ->
         Emit(Item("itemDataComma", << dataComma >>), "lexData", pos + 1)
    [] l.state = "lexData" -> lexData(input, pos)
    [] l.state = "lexEOF" ->
         Emit(Item("itemEOF", << >>), "closed", pos)
    [] OTHER -> LexStop(pos)

\* Every token of an input, in order (what TestLexDataURLs collects).
RECURSIVE lexAllFrom(_, _)
lexAllFrom(input, l) ==
  IF l.state = "closed" THEN << >>
  ELSE LET n == lexNext(input, l)
       IN  IF n.emit THEN << n.item >> \o lexAllFrom(input, n.l)
           ELSE lexAllFrom(input, n.l)

lexAll(input) == lexAllFrom(input, newLexer)

(* ------------------------------------------------------------------ *)
(* dataurl.go: MediaType, DataURL, the parser, DecodeString             *)
(* ------------------------------------------------------------------ *)

EncodingBase64 == "base64"
EncodingASCII == "ascii"

\* A []byte that may be nil.
NilBytes == [nil |-> TRUE, b |-> << >>]
SomeBytes(b) == [nil |-> FALSE, b |-> b]

\* map[string]string as a function from names to values.
EmptyParams == [k \in {} |-> << >>]
MapSet(m, k, v) == [x \in DOMAIN m \cup {k} |-> IF x = k THEN v ELSE m[x]]
MapDelete(m, k) == [x \in DOMAIN m \ {k} |-> m[x]]

usAscii == T(<< "U", "S", "-", "A", "S", "C", "I", "I" >>)

\* A mutant of defaultMediaType: text/plain without parameters.
defaultMediaTypeNoParams ==
  [Type |-> T(<< "t", "e", "x", "t" >>),
   Subtype |-> T(<< "p", "l", "a", "i", "n" >>),
   Params |-> EmptyParams]

\* defaultMediaType(): text/plain;charset=US-ASCII.
defaultMediaType ==
  [Type |-> T(<< "t", "e", "x", "t" >>),
   Subtype |-> T(<< "p", "l", "a", "i", "n" >>),
   Params |-> MapSet(EmptyParams, charsetWord, usAscii)]

\* The DataURL DecodeString starts from.
newDataURL ==
  [Type |-> defaultMediaType.Type,
   Subtype |-> defaultMediaType.Subtype,
   Params |-> defaultMediaType.Params,
   Encoding |-> EncodingASCII,
   Data |-> NilBytes]

\* asciiDataReader and base64DataReader; "nil" is the parser's unset
\* encodedDataReaderFn.
asciiDataReader(s) == Unescape(s)
base64DataReader(s) == b64Decode(s)

\* A mutant of applyDataReader: the data is always percent-unescaped.
applyDataReaderAlwaysAscii(fn, s) == asciiDataReader(s)

applyDataReader(fn, s) ==
  IF fn = "base64" THEN base64DataReader(s) ELSE asciiDataReader(s)

\* The parser DecodeString builds.
newParser ==
  [du |-> newDataURL,
   currentAttr |-> << >>,
   unquoteParamVal |-> FALSE,
   encodedDataReaderFn |-> "nil"]

Continue(p) == [p |-> p, status |-> "continue", err |-> ""]
ReturnErr(p, err) == [p |-> p, status |-> "return", err |-> err]
ReturnNil(p) == [p |-> p, status |-> "return", err |-> ""]
Fault(p, what) == [p |-> p, status |-> "panic", err |-> what]

\* A mutant of parseMediaType: the default charset parameter is kept.
parseMediaTypeKeepsCharset(p, item) ==
  Continue([p EXCEPT !.du.Type = item.val])

\* case itemMediaType.
parseMediaType(p, item) ==
  Continue([p EXCEPT !.du.Type = item.val,
                     !.du.Params = MapDelete(p.du.Params, charsetWord)])

\* A mutant of parseParamVal: the unquoteParamVal flag stays set.
parseParamValKeepsFlag(p, item) ==
  IF p.unquoteParamVal
  THEN LET us == strconvUnquote(item.val)
       IN  IF ~us.ok THEN ReturnErr(p, us.err)
           ELSE Continue([p EXCEPT !.du.Params = MapSet(p.du.Params, p.currentAttr, us.val)])
  ELSE LET us == UnescapeToString(item.val)
       IN  IF ~us.ok THEN ReturnErr(p, us.err)
           ELSE Continue([p EXCEPT !.du.Params = MapSet(p.du.Params, p.currentAttr, us.val)])

\* A mutant of parseParamVal: a name that has a value keeps it.
parseParamValKeepsFirst(p, item) ==
  LET us == IF p.unquoteParamVal THEN strconvUnquote(item.val) ELSE UnescapeToString(item.val)
      q == [p EXCEPT !.unquoteParamVal = FALSE]
  IN  IF ~us.ok THEN ReturnErr(q, us.err)
      ELSE IF p.currentAttr \in DOMAIN p.du.Params THEN Continue(q)
      ELSE Continue([q EXCEPT !.du.Params = MapSet(p.du.Params, p.currentAttr, us.val)])

\* case itemParamVal.
parseParamVal(p, item) ==
  IF p.unquoteParamVal
  THEN LET us == strconvUnquote(item.val)
           q == [p EXCEPT !.unquoteParamVal = FALSE]
       IN  IF ~us.ok THEN ReturnErr(q, us.err)
           ELSE Continue([q EXCEPT !.du.Params = MapSet(p.du.Params, p.currentAttr, us.val)])
  ELSE LET us == UnescapeToString(item.val)
       IN  IF ~us.ok THEN ReturnErr(p, us.err)
           ELSE Continue([p EXCEPT !.du.Params = MapSet(p.du.Params, p.currentAttr, us.val)])

\* case itemData; calling the unset encodedDataReaderFn is a nil call.
parseData(p, item) ==
  IF p.encodedDataReaderFn = "nil" THEN Fault(p, "nil encodedDataReaderFn")
  ELSE LET r == applyDataReader(p.encodedDataReaderFn, item.val)
       IN  IF ~r.ok THEN ReturnErr(p, r.err)
           ELSE Continue([p EXCEPT !.du.Data = SomeBytes(r.val)])

\* A mutant of parseError: the itemError is skipped like an item without a case.
parseErrorSkipped(p, item) == Continue(p)

\* case itemError: parse returns the item's message as the error.
parseError(p, item) == ReturnErr(p, item.msg)

\* A mutant of parseEOF: a nil Data is left nil.
parseEOFKeepsNil(p) == ReturnNil(p)

\* case itemEOF: a Data that is still nil becomes the empty []byte, and parse
\* returns nil.
parseEOF(p) ==
  IF p.du.Data.nil
  THEN ReturnNil([p EXCEPT !.du.Data = SomeBytes(<< >>)])
  ELSE ReturnNil(p)

\* One turn of the loop of parser.parse over the items: the switch on item.t.
parseItem(p, item) ==
  CASE item.t = "itemError" -> parseError(p, item)
    [] item.t = "itemMediaType" -> parseMediaType(p, item)
    [] item.t = "itemMediaSubType" -> Continue([p EXCEPT !.du.Subtype = item.val])
    [] item.t = "itemParamAttr" -> Continue([p EXCEPT !.currentAttr = item.val])
    [] item.t = "itemLeftStringQuote" -> Continue([p EXCEPT !.unquoteParamVal = TRUE])
    [] item.t = "itemParamVal" -> parseParamVal(p, item)
    [] item.t = "itemBase64Enc" ->
         Continue([p EXCEPT !.du.Encoding = EncodingBase64,
                            !.encodedDataReaderFn = "base64"])
    [] item.t = "itemDataComma" ->
         IF p.encodedDataReaderFn = "nil"
         THEN Continue([p EXCEPT !.encodedDataReaderFn = "ascii"])
         ELSE Continue(p)
    [] item.t = "itemData" -> parseData(p, item)
    [] item.t = "itemEOF" -> parseEOF(p)
    [] OTHER -> Continue(p)

\* What DecodeString returns when no call has returned.
NoResult == [nil |-> TRUE, du |-> newDataURL, err |-> ""]

\* A mutant of decodeReturn: the half-built DataURL is returned with the error.
decodeReturnKeepsResult(p, err) == [nil |-> FALSE, du |-> p.du, err |-> err]

\* The end of DecodeString: (nil, err) when parse failed, (du, nil) otherwise.
decodeReturn(p, err) ==
  IF err # "" THEN [nil |-> TRUE, du |-> newDataURL, err |-> err]
  ELSE [nil |-> FALSE, du |-> p.du, err |-> ""]

(* ------------------------------------------------------------------ *)
(* dataurl.go: MediaType.String, DataURL.WriteTo, DataURL.String        *)
(* ------------------------------------------------------------------ *)

\* The orders in which a range over a Go map may visit the keys.
Orders(keys) ==
  { o \in [1..Cardinality(keys) -> keys] : \A i, j \in DOMAIN o : i # j => o[i] # o[j] }

\* ContentType(): Type "/" Subtype.
ContentType(mt) == mt.Type \o << mediaSep >> \o mt.Subtype

\* A mutant of MediaTypeString: the parameters come before the content type.
MediaTypeStringParamsFirst(mt, order) ==
  Flatten([i \in 1..Len(order) |->
             << paramSemicolon >> \o order[i] \o << paramEqual >> \o EscapeString(mt.Params[order[i]])])
  \o ContentType(mt)

\* MediaType.String(): the content type, then ;k=EscapeString(v) for each
\* parameter in the order the map is ranged over.
MediaTypeString(mt, order) ==
  ContentType(mt) \o
  Flatten([i \in 1..Len(order) |->
             << paramSemicolon >> \o order[i] \o << paramEqual >> \o EscapeString(mt.Params[order[i]])])

base64Suffix == << paramSemicolon >> \o base64Word

\* A mutant of writePayload: an Encoding that is not "base64" is written as
\* "ascii".
writePayloadUnknownAsAscii(du, w, n) ==
  IF du.Encoding = EncodingBase64
  THEN [w |-> w \o b64Encode(du.Data.b), n |-> n, err |-> ""]
  ELSE [w |-> w \o Escape(du.Data.b), n |-> n + Len(Escape(du.Data.b)), err |-> ""]

\* The end of WriteTo, lines 87-102: the payload.  The base64 encoder writes
\* the encoded data to the sink, and its count ni is not added to n; the
\* ascii branch adds the length of the escaped data; any other encoding is
\* an error after the header has been written.
writePayload(du, w, n) ==
  IF du.Encoding = EncodingBase64
  THEN [w |-> w \o b64Encode(du.Data.b), n |-> n, err |-> ""]
  ELSE IF du.Encoding = EncodingASCII
  THEN [w |-> w \o Escape(du.Data.b), n |-> n + Len(Escape(du.Data.b)), err |-> ""]
  ELSE [w |-> w, n |-> n, err |-> "dataurl: invalid encoding"]

\* WriteTo(w) (n, err) on an empty sink that takes every write: w is what
\* the sink holds afterwards.
WriteTo(du, order) ==
  LET w1 == dataPrefix
      n1 == Len(dataPrefix)
      mt == MediaTypeString(du, order)
      w2 == w1 \o mt
      n2 == n1 + Len(mt)
      w3 == IF du.Encoding = EncodingBase64 THEN w2 \o base64Suffix ELSE w2
      n3 == IF du.Encoding = EncodingBase64 THEN n2 + Len(base64Suffix) ELSE n2
      w4 == w3 \o << dataComma >>
      n4 == n3 + 1
  IN  writePayload(du, w4, n4)

\* String(): what WriteTo leaves in a fresh buffer, its error dropped.
String(du, order) == WriteTo(du, order).w

(* ------------------------------------------------------------------ *)
(* The inputs of the model                                              *)
(* ------------------------------------------------------------------ *)

\* How many parameters an input carries at most.
MaxParams == 2

\* What may stand between the prefix and the parameters: nothing, a media
\* type, a type without a subtype, a type with an empty subtype.
MediaTypeTexts ==
  { << >>,
    T(<< "t", "e", "/", "s", "+" >>),
    T(<< "x", "x" >>),
    T(<< "t", "/" >>) }

\* Parameters, well formed and not.
ParamTexts ==
  { T(<< ";", "a", "=", "b" >>),
    T(<< ";", "c", "h", "a", "r", "s", "e", "t", "=", "u" >>),
    T(<< ";", "a", "=", "%", "3", "B", "%", "4", "1" >>),
    T(<< ";", "b", "=", "\"", "\\", "\"", ";", "=", "%", "4", "1", "\"" >>),
    T(<< ";", "a", "=", "\"", "\\", "n", "\"" >>),
    T(<< ";", "a", "=", "\"", "\\", "q", "\"" >>),
    T(<< ";", "a", "=", "%", "4" >>),
    T(<< ";", "a" >>),
    T(<< ";", "b", "=", "\"", "\"" >>),
    T(<< ";", "a", "=", "\"", "x" >>),
    T(<< ";", "a", "=" >>),
    base64Suffix }

Base64Texts == { << >>, base64Suffix }

\* The comma and the data, or no comma at all.
DataTexts ==
  { << >>,
    T(<< "," >>),
    T(<< ",", "Q", "U", "I", "=" >>),
    T(<< ",", "%", "4", "1", ";", "+" >>),
    T(<< ",", "%", "4" >>) }

\* Texts that do not start with the prefix.
NoPrefixInputs ==
  { << >>, T(<< "d", "a", "t" >>), T(<< "x", "d", "a", "t", "a", ":", "," >>) }

Inputs ==
  NoPrefixInputs \cup
  { dataPrefix \o mt \o Flatten(ps) \o b \o d :
      mt \in MediaTypeTexts, ps \in SeqsUpTo(ParamTexts, MaxParams),
      b \in Base64Texts, d \in DataTexts }

(* ------------------------------------------------------------------ *)
(* The state: one DecodeString call at a time, the lexer and the parser *)
(* on the two ends of the items channel                                 *)
(* ------------------------------------------------------------------ *)

VARIABLES
  input,       \* the text of the running DecodeString call
  call,        \* 1: the call on the input; 2: the call on String() of its result
  lex,         \* the lexer goroutine: state function and position
  chan,        \* the items channel: << >>, or the item the lexer is sending
  items,       \* every item the lexer has sent so far, in order
  p,           \* the parser: du, currentAttr, unquoteParamVal, encodedDataReaderFn
  pc,          \* "parsing", "returned", or "panicked"
  ret,         \* what DecodeString returned
  first,       \* what the first call returned, once the second has started
  nread,       \* how many items the parser has received
  readerUsed,  \* the decoder the itemData case called: "none", "ascii", "base64"
  esc,         \* Escape / Unescape on a byte sequence
  wr,          \* WriteTo on a DataURL
  heap,        \* the Params maps allocated so far, a map's index its identity
  results      \* the results a caller holds: the map of each and what its
               \* holder has put in it

vars == << input, call, lex, chan, items, p, pc, ret, first, nread, readerUsed, esc, wr,
          heap, results >>

decodeVars == << input, call, lex, chan, items, p, pc, ret, first, nread, readerUsed >>

EscIdle == [phase |-> "idle", data |-> << >>, out |-> << >>, back |-> Unescape(<< >>)]
WrIdle == [phase |-> "idle", du |-> newDataURL, out |-> [w |-> << >>, n |-> 0, err |-> ""]]

\* DecodeString(s): a fresh DataURL, parser and lexer.
StartCall(s, k) ==
  /\ input = s
  /\ call = k
  /\ lex = newLexer
  /\ chan = << >>
  /\ items = << >>
  /\ p = newParser
  /\ pc = "parsing"
  /\ ret = NoResult
  /\ nread = 0
  /\ readerUsed = "none"

Init ==
  /\ \E s \in Inputs : StartCall(s, 1)
  /\ first = NoResult
  /\ esc = EscIdle
  /\ wr = WrIdle
  /\ heap = << >>
  /\ results = << >>

\* The lexer goroutine runs to its next emit and offers the item on the
\* channel, or stops and closes the channel.
LexerEmit ==
  /\ lex.state # "closed"
  /\ chan = << >>
  /\ LET n == lexNext(input, lex)
     IN  /\ lex' = n.l
         /\ chan' = IF n.emit THEN << n.item >> ELSE << >>
         /\ items' = IF n.emit THEN Append(items, n.item) ELSE items
  /\ UNCHANGED << input, call, p, pc, ret, first, nread, readerUsed, esc, wr, heap, results >>

\* The parser receives the item and runs the switch on it; DecodeString
\* returns when parse does.
ParserReceive ==
  /\ pc = "parsing"
  /\ chan # << >>
  /\ LET item == chan[1]
         r == parseItem(p, item)
     IN  /\ p' = r.p
         /\ pc' = CASE r.status = "continue" -> "parsing"
                     [] r.status = "return" -> "returned"
                     [] OTHER -> "panicked"
         /\ ret' = IF r.status = "return" THEN decodeReturn(r.p, r.err) ELSE ret
         /\ readerUsed' = IF item.t = "itemData" THEN p.encodedDataReaderFn ELSE readerUsed
  /\ chan' = << >>
  /\ nread' = nread + 1
  /\ UNCHANGED << input, call, lex, items, first, esc, wr, heap, results >>

\* The channel is closed and empty: the range loop ends and parse panics
\* with "EOF not found".
ParserRangeEnds ==
  /\ pc = "parsing"
  /\ chan = << >>
  /\ lex.state = "closed"
  /\ pc' = "panicked"
  /\ UNCHANGED << input, call, lex, chan, items, p, ret, first, nread, readerUsed, esc, wr,
                  heap, results >>

\* The caller serializes the result with String() and decodes that text.
Reencode ==
  /\ call = 1
  /\ pc = "returned"
  /\ ~ret.nil
  /\ \E order \in Orders(DOMAIN ret.du.Params) :
        /\ input' = String(ret.du, order)
        /\ call' = 2
        /\ first' = ret
        /\ lex' = newLexer
        /\ chan' = << >>
        /\ items' = << >>
        /\ p' = newParser
        /\ pc' = "parsing"
        /\ ret' = NoResult
        /\ nread' = 0
        /\ readerUsed' = "none"
  /\ UNCHANGED << esc, wr, heap, results >>

Next == LexerEmit \/ ParserReceive \/ ParserRangeEnds \/ Reencode

Spec == Init /\ [][Next]_vars

(* ------------------------------------------------------------------ *)
(* Escape and Unescape on their own                                     *)
(* ------------------------------------------------------------------ *)

\* The longest sequence over EscSample that is escaped.
MaxEscLen == 4

\* '%', hexadecimal digits in both cases, '+', a space, marks the package
\* comment calls unreserved, reserved characters, a quote, a byte above 127.
EscSample ==
  { Ord("%"), Ord("4"), Ord("1"), Ord("+"), Ord(" "), Ord("!"), Ord("$"),
    Ord(";"), Ord("\""), Ord("a"), Ord("B"), 255 }

\* Every single byte, and the short sequences over the sample.
EscInputs == { << b >> : b \in Bytes } \cup SeqsUpTo(EscSample, MaxEscLen)

\* The call under the escaper's runs: none.
DecodeIdle ==
  /\ StartCall(<< >>, 1)
  /\ first = NoResult
  /\ heap = << >>
  /\ results = << >>

InitEscape ==
  /\ DecodeIdle
  /\ wr = WrIdle
  /\ \E d \in EscInputs :
        esc = [phase |-> "start", data |-> d, out |-> << >>, back |-> Unescape(<< >>)]

\* out := Escape(data).
EscapeStep ==
  /\ esc.phase = "start"
  /\ esc' = [esc EXCEPT !.phase = "escaped", !.out = Escape(esc.data)]
  /\ UNCHANGED << decodeVars, wr, heap, results >>

\* back := Unescape(out), on what Escape returned.
UnescapeStep ==
  /\ esc.phase = "escaped"
  /\ esc' = [esc EXCEPT !.phase = "unescaped", !.back = Unescape(esc.out)]
  /\ UNCHANGED << decodeVars, wr, heap, results >>

\* back := Unescape(data), on a text as it comes.
UnescapeRaw ==
  /\ esc.phase = "start"
  /\ esc' = [esc EXCEPT !.phase = "rawunescaped", !.back = Unescape(esc.data)]
  /\ UNCHANGED << decodeVars, wr, heap, results >>

NextEscape == EscapeStep \/ UnescapeStep \/ UnescapeRaw

SpecEscape == InitEscape /\ [][NextEscape]_vars

(* ------------------------------------------------------------------ *)
(* WriteTo on its own                                                   *)
(* ------------------------------------------------------------------ *)

\* The longest Data that is written.
MaxDataLen == 3

WrBytes == { Ord("A"), Ord(";"), 255 }

nameA == T(<< "a" >>)
nameB == T(<< "b" >>)

WrParams ==
  { EmptyParams,
    MapSet(EmptyParams, nameA, T(<< ";" >>)),
    MapSet(MapSet(EmptyParams, nameA, T(<< "x" >>)), nameB, T(<< " ", "$" >>)) }

\* The DataURL values written: the two encodings and two that are neither,
\* the zero value "" among them.
WrDataURLs ==
  { [Type |-> T(<< "t" >>), Subtype |-> T(<< "s" >>), Params |-> ps,
     Encoding |-> e, Data |-> SomeBytes(d)] :
      ps \in WrParams, e \in {EncodingASCII, EncodingBase64, "hex", ""},
      d \in SeqsUpTo(WrBytes, MaxDataLen) }

InitWrite ==
  /\ DecodeIdle
  /\ esc = EscIdle
  /\ \E du \in WrDataURLs :
        wr = [phase |-> "start", du |-> du, out |-> [w |-> << >>, n |-> 0, err |-> ""]]

\* n, err := du.WriteTo(w) on an empty sink.
WriteToStep ==
  /\ wr.phase = "start"
  /\ \E order \in Orders(DOMAIN wr.du.Params) :
        wr' = [wr EXCEPT !.phase = "written", !.out = WriteTo(wr.du, order)]
  /\ UNCHANGED << decodeVars, esc, heap, results >>

NextWrite == WriteToStep

SpecWrite == InitWrite /\ [][NextWrite]_vars

(* ------------------------------------------------------------------ *)
(* Several DecodeString calls and a caller that changes the Params of   *)
(* the results: the maps are objects of the heap, a result holds a      *)
(* reference to its map                                                 *)
(* ------------------------------------------------------------------ *)

\* How many DecodeString calls are made.
MaxCalls == 3

\* A mutant of defaultMediaTypeIn: one map, made once, is handed out by
\* every call (a package-level value in place of the function).
defaultMediaTypeShared(h) ==
  IF h = << >> THEN [heap |-> << defaultMediaType.Params >>, ref |-> 1]
  ELSE [heap |-> h, ref |-> 1]

\* defaultMediaType() on the heap h: the map literal makes a new map on every
\* call.
defaultMediaTypeIn(h) ==
  [heap |-> Append(h, defaultMediaType.Params), ref |-> Len(h) + 1]

\* parser.parse over the items of the lexer, from first to last: the loop
\* until a case returns, the panic when the items end before that.
RECURSIVE parseAll(_, _)
RECURSIVE parseRest(_, _)
parseAll(q, its) ==
  IF its = << >> THEN Fault(q, "EOF not found")
  ELSE parseRest(parseItem(q, Head(its)), Tail(its))

\* After the switch on one item, with r what it gave: the next turn of the
\* loop, or the return.
parseRest(r, its) == IF r.status = "continue" THEN parseAll(r.p, its) ELSE r

\* The end of DecodeString on the map a.ref of the heap a.heap, with r what
\* parse gave: the map holds what the parser wrote, and ref is the map of the
\* result, 0 when the call returns no result.
decodeEnd(a, r) ==
  [heap |-> [a.heap EXCEPT ![a.ref] = r.p.du.Params],
   ref |-> IF r.status = "return" /\ r.err = "" THEN a.ref ELSE 0]

\* The parser DecodeString builds on the map a.ref, run over the items of s.
decodeOn(a, s) ==
  decodeEnd(a, parseAll([newParser EXCEPT !.du.Params = a.heap[a.ref]], lexAll(s)))

\* DecodeString(s) on the heap h: the parser writes into the map that
\* defaultMediaType() gave it.
DecodeStringIn(h, s) == decodeOn(defaultMediaTypeIn(h), s)

\* The inputs of the calls: the default media type, a parameter, a media
\* type (the default charset is deleted), a text that is refused.
FreshInputs ==
  { T(<< "d", "a", "t", "a", ":", "," >>),
    T(<< "d", "a", "t", "a", ":", ";", "a", "=", "b", "," >>),
    T(<< "d", "a", "t", "a", ":", "t", "e", "/", "s", "+", "," >>),
    T(<< "d", "a", "t", "a", ":", "x", "x", "," >>) }

\* What the caller writes into a result's Params.
FreshNames == { charsetWord, nameA }
FreshValue == T(<< "x" >>)

InitFresh ==
  /\ DecodeIdle
  /\ esc = EscIdle
  /\ wr = WrIdle

\* du, err := DecodeString(s); the caller keeps du when there is one.  own is
\* what the call returns when it is the only one.
DecodeCall ==
  /\ Len(heap) < MaxCalls
  /\ \E s \in FreshInputs :
        \E d \in { DecodeStringIn(heap, s) }, alone \in { DecodeStringIn(<< >>, s) } :
           /\ heap' = d.heap
           /\ results' = IF d.ref = 0 THEN results
                          ELSE Append(results, [ref |-> d.ref, own |-> alone.heap[alone.ref]])
  /\ UNCHANGED << decodeVars, esc, wr >>

\* results[i].Params[k] = v, by the holder of the result.
SetParam ==
  /\ \E i \in DOMAIN results, k \in FreshNames :
        /\ heap' = [heap EXCEPT ![results[i].ref] = MapSet(@, k, FreshValue)]
        /\ results' = [results EXCEPT ![i].own = MapSet(@, k, FreshValue)]
  /\ UNCHANGED << decodeVars, esc, wr >>

\* delete(results[i].Params, k), by the holder of the result.
DeleteParam ==
  /\ \E i \in DOMAIN results, k \in FreshNames :
        /\ heap' = [heap EXCEPT ![results[i].ref] = MapDelete(@, k)]
        /\ results' = [results EXCEPT ![i].own = MapDelete(@, k)]
  /\ UNCHANGED << decodeVars, esc, wr >>

NextFresh == DecodeCall \/ SetParam \/ DeleteParam

SpecFresh == InitFresh /\ [][NextFresh]_vars

(* ------------------------------------------------------------------ *)
(* Properties                                                           *)
(* ------------------------------------------------------------------ *)

Succeeded == pc = "returned" /\ ~ret.nil /\ ret.err = ""
Failed == pc = "returned" /\ ret.err # ""

HasItem(its, t) == \E i \in 1..Len(its) : its[i].t = t

\* The item at i was lexed inside quotes.
QuotedAt(its, i) == i > 1 /\ its[i - 1].t = "itemLeftStringQuote"

Base64Before(its, i) == \E j \in 1..(i - 1) : its[j].t = "itemBase64Enc"

\* What decoding the value of the itemParamVal at i gives.
DecodedParamVal(its, i) ==
  IF QuotedAt(its, i) THEN strconvUnquote(its[i].val) ELSE UnescapeToString(its[i].val)

\* What decoding the itemData at i gives.
DecodedData(its, i) ==
  IF Base64Before(its, i) THEN b64Decode(its[i].val) ELSE Unescape(its[i].val)

\* The error the item at i stands for, "" when it stands for none.
ItemFailure(its, i) ==
  CASE its[i].t = "itemError" -> its[i].msg
    [] its[i].t = "itemParamVal" -> DecodedParamVal(its, i).err
    [] its[i].t = "itemData" -> DecodedData(its, i).err
    [] OTHER -> ""

\* C1: a text that DecodeString accepts, serialized with String() and decoded
\* again, is accepted again and gives the same Type, Subtype, Encoding, Data
\* and parameters as the first time.
C1_RoundTrip ==
  (call = 2 /\ pc # "parsing") =>
     /\ Succeeded
     /\ ret.du.Type = first.du.Type
     /\ ret.du.Subtype = first.du.Subtype
     /\ ret.du.Encoding = first.du.Encoding
     /\ ret.du.Data = first.du.Data
     /\ ret.du.Params = first.du.Params

\* The second call has returned a result with a parameter that was quoted
\* and holds a quote and a ';', next to base64 data.
C1_Witness ==
  /\ call = 2
  /\ Succeeded
  /\ ret.du.Encoding = EncodingBase64
  /\ ret.du.Data.b # << >>
  /\ \E k \in DOMAIN ret.du.Params :
        \E i, j \in 1..Len(ret.du.Params[k]) :
           ret.du.Params[k][i] = stringQuote /\ ret.du.Params[k][j] = paramSemicolon

\* The indices of the itemParamVal that belong to a charset attribute.
CharsetVals(its) ==
  { i \in 1..Len(its) :
      /\ its[i].t = "itemParamVal"
      /\ \E a \in 1..(i - 1) :
            /\ its[a].t = "itemParamAttr"
            /\ its[a].val = charsetWord
            /\ \A b \in (a + 1)..(i - 1) : its[b].t \notin {"itemParamAttr", "itemParamVal"} }

Max(S) == CHOOSE x \in S : \A y \in S : y <= x

\* C2: after a successful DecodeString of an input with a media type, Params
\* hold "charset" exactly when the input has a charset parameter, and then
\* with the (last) value the input gives, the default US-ASCII being gone.
C2_DefaultCharsetRemoved ==
  (Succeeded /\ HasItem(items, "itemMediaType")) =>
     /\ (charsetWord \in DOMAIN ret.du.Params) <=> (CharsetVals(items) # {})
     /\ CharsetVals(items) # {} =>
           ret.du.Params[charsetWord] = DecodedParamVal(items, Max(CharsetVals(items))).val

\* A media type without a charset parameter has been decoded: no charset.
C2_Witness ==
  /\ call = 1
  /\ Succeeded
  /\ HasItem(items, "itemMediaType")
  /\ CharsetVals(items) = {}
  /\ charsetWord \notin DOMAIN ret.du.Params
  /\ DOMAIN ret.du.Params # {}

\* C3: after a successful DecodeString, Encoding is "base64" exactly when an
\* itemBase64Enc came before the itemDataComma, and "ascii" otherwise, and
\* Data is the data item decoded by the decoder of that Encoding.
C3_EncodingAndDecoder ==
  Succeeded =>
     /\ ret.du.Encoding =
           IF \E i \in 1..Len(items) : items[i].t = "itemDataComma" /\ Base64Before(items, i)
           THEN EncodingBase64 ELSE EncodingASCII
     /\ \A i \in 1..Len(items) :
           items[i].t = "itemData" =>
              /\ readerUsed = ret.du.Encoding
              /\ ret.du.Data.b =
                    IF ret.du.Encoding = EncodingBase64
                    THEN base64DataReader(items[i].val).val
                    ELSE asciiDataReader(items[i].val).val

\* Base64 data has been decoded to the bytes "AB".
C3_Witness ==
  /\ Succeeded
  /\ ret.du.Encoding = EncodingBase64
  /\ readerUsed = "base64"
  /\ ret.du.Data.b = T(<< "A", "B" >>)

\* C4: when DecodeString returns an error it returns no result, the error is
\* that of the first failing item in item order (an itemError, or a
\* parameter value or data that does not decode), and that item is the last
\* one the parser has received.
C4_FirstErrorNoResult ==
  Failed =>
     /\ ret.nil
     /\ nread >= 1
     /\ ItemFailure(items, nread) = ret.err
     /\ \A i \in 1..(nread - 1) : ItemFailure(items, i) = ""

\* A parameter value failed to unescape, and the lexer has gone on to an
\* item that the parser never receives.
C4_Witness ==
  /\ Failed
  /\ ret.err = "invalid URL escape"
  /\ items[nread].t = "itemParamVal"
  /\ Len(items) > nread

\* The characters the package comment on Escape calls unreserved:
\* [a-z], [A-Z], [0-9] and - _ . ! ~ * ' ( ).
IsDocumentedUnreserved(b) ==
  \/ IsAlnum(b)
  \/ b \in { Ord("-"), Ord("_"), Ord("."), Ord("!"), Ord("~"), Ord("*"), Ord("'"),
              Ord("("), Ord(")") }

\* A byte as the comment on Escape says it is written.
documentedEscapeByte(b) ==
  IF IsDocumentedUnreserved(b) THEN << b >>
  ELSE << Ord("%"), upperhex(b \div 16), upperhex(b % 16) >>

\* C5: Escape leaves a byte as it is exactly when it is a letter, a digit or
\* one of - _ . ! ~ * ' ( ), and writes every other byte, the space included,
\* as % and two upper-case hexadecimal digits.
C5_EscapeUnreservedSet ==
  esc.phase = "escaped" =>
     esc.out = Flatten([i \in 1..Len(esc.data) |-> documentedEscapeByte(esc.data[i])])

\* C6: Unescape(Escape(b)) succeeds and returns b.
C6_UnescapeEscape ==
  esc.phase = "unescaped" => (esc.back.ok /\ esc.back.val = esc.data)

\* A sequence with a '%', a byte above 127 and a space has gone through
\* Escape and Unescape.
C6_Witness ==
  /\ esc.phase = "unescaped"
  /\ Len(esc.data) = 3
  /\ esc.data[1] = Ord("%")
  /\ esc.data[2] = 255
  /\ esc.data[3] = Ord(" ")
  /\ Len(esc.out) = 9

\* A quoted value with every backslash dropped and the character after it
\* kept as it is.
RECURSIVE dropBackslashes(_)
dropBackslashes(v) ==
  IF v = << >> THEN << >>
  ELSE IF Head(v) = backslash /\ Len(v) >= 2
       THEN << v[2] >> \o dropBackslashes(Drop(v, 2))
  ELSE << Head(v) >> \o dropBackslashes(Tail(v))

\* C7: a parameter value lexed inside quotes is stored with each backslash
\* dropped and the character after it kept literally, and decoding it does
\* not fail.
C7_QuotedValueLiteral ==
  (nread >= 1 /\ items[nread].t = "itemParamVal" /\ QuotedAt(items, nread)) =>
     /\ ~Failed
     /\ p.currentAttr \in DOMAIN p.du.Params
     /\ p.du.Params[p.currentAttr] = dropBackslashes(items[nread].val)

\* C8: for an Encoding of "ascii" or "base64", the n that WriteTo returns is
\* the number of bytes it wrote to the sink.
C8_WriteToCount ==
  (wr.phase = "written" /\ wr.du.Encoding \in {EncodingASCII, EncodingBase64}) =>
     wr.out.n = Len(wr.out.w)

Last(its) == its[Len(its)]

\* C9: a DecodeString call returns a result or an error: the items end with
\* an itemEOF or an itemError, parse never reaches its "EOF not found" panic,
\* and a decoder is set when an itemData is processed.
C9_DecodeAlwaysReturns ==
  /\ pc # "panicked"
  /\ lex.state = "closed" => (items # << >> /\ Last(items).t \in {"itemEOF", "itemError"})
  /\ readerUsed # "nil"

\* C10: in the items of an input an itemError, if there is one, is the only
\* one and the last item, and items without an itemError end with the one
\* itemEOF.
C10_ErrorOrEOFLast ==
  /\ \A i \in 1..(Len(items) - 1) : items[i].t \notin {"itemError", "itemEOF"}
  /\ lex.state = "closed" => (items # << >> /\ Last(items).t \in {"itemEOF", "itemError"})

\* C11: after a successful DecodeString the result's Data is not nil, and it
\* is the empty byte sequence when the input has nothing after the comma (no
\* itemData was sent), whatever the encoding.
C11_DataNeverNil ==
  Succeeded =>
     /\ ~ret.du.Data.nil
     /\ ~HasItem(items, "itemData") => ret.du.Data = SomeBytes(<< >>)

\* A base64 input with nothing after the comma has been decoded: no itemData
\* was sent and Data is the empty, non-nil byte sequence.
C11_Witness ==
  /\ call = 1
  /\ Succeeded
  /\ ret.du.Encoding = EncodingBase64
  /\ Last(input) = dataComma
  /\ ~HasItem(items, "itemData")
  /\ ret.du.Data = SomeBytes(<< >>)

\* The index of the itemDataComma in the items, 0 when there is none.
CommaIndex(its) ==
  IF HasItem(its, "itemDataComma")
  THEN CHOOSE i \in 1..Len(its) : its[i].t = "itemDataComma"
  ELSE 0

\* The lexer has stopped after an itemEOF: it has accepted the input.
LexAccepted == lex.state = "closed" /\ items # << >> /\ Last(items).t = "itemEOF"

\* The input from the first character after the first n items' text on.
\* The items before the itemEOF carry the input's text in order, so the
\* text after the itemDataComma starts after theirs.
RECURSIVE ItemsLen(_, _)
ItemsLen(its, n) == IF n = 0 THEN 0 ELSE ItemsLen(its, n - 1) + Len(its[n].val)

RestAfterComma(s, its) == Drop(s, ItemsLen(its, CommaIndex(its)))

\* C12 as stated: in the items of an accepted input the itemDataComma is
\* followed by exactly one itemData that holds the whole rest of the input,
\* the empty string when nothing follows the comma, and then by the itemEOF.
C12_DataTokenAlways ==
  LexAccepted =>
     LET c == CommaIndex(items)
     IN  /\ c > 0
         /\ Len(items) = c + 2
         /\ items[c + 1].t = "itemData"
         /\ items[c + 1].val = RestAfterComma(input, items)
         /\ items[c + 2].t = "itemEOF"

\* C12, amended: in the items of an accepted input the itemDataComma is
\* followed, when something follows the comma, by exactly one itemData that
\* holds the whole rest of the input as it is and then by the itemEOF; when
\* nothing follows the comma it is followed by the itemEOF alone.
C12_DataThenEOF ==
  LexAccepted =>
     LET c == CommaIndex(items)
         rest == RestAfterComma(input, items)
     IN  /\ c > 0
         /\ \A i \in 1..Len(items) : items[i].t = "itemDataComma" => i = c
         /\ IF rest = << >>
            THEN Len(items) = c + 1 /\ items[c + 1].t = "itemEOF"
            ELSE /\ Len(items) = c + 2
                 /\ items[c + 1].t = "itemData"
                 /\ items[c + 1].val = rest
                 /\ items[c + 2].t = "itemEOF"

\* An input whose data holds a ';' has been lexed to the end: the itemData
\* carries the ';' and what follows it.
C12_Witness ==
  /\ LexAccepted
  /\ Len(items) = CommaIndex(items) + 2
  /\ items[CommaIndex(items) + 1].t = "itemData"
  /\ items[CommaIndex(items) + 1].val = T(<< "%", "4", "1", ";", "+" >>)

\* The input has no media type: ';' or ',' comes right after the prefix.
NoExplicitMediaType(s) ==
  /\ HasPrefix(s, dataPrefix)
  /\ Len(s) > Len(dataPrefix)
  /\ s[Len(dataPrefix) + 1] \in {paramSemicolon, dataComma}

\* The parameters of the items from i on, written in item order over m: each
\* itemParamVal gives its decoded value to the name of the itemParamAttr
\* before it.
RECURSIVE ExplicitParams(_, _, _, _)
ExplicitParams(its, i, attr, m) ==
  IF i > Len(its) THEN m
  ELSE IF its[i].t = "itemParamAttr" THEN ExplicitParams(its, i + 1, its[i].val, m)
  ELSE IF its[i].t = "itemParamVal"
       THEN ExplicitParams(its, i + 1, attr, MapSet(m, attr, DecodedParamVal(its, i).val))
  ELSE ExplicitParams(its, i + 1, attr, m)

\* C13: for an input without a media type the lexer sends no itemMediaType,
\* itemMediaSep or itemMediaSubType, and a successful DecodeString returns
\* Type "text", Subtype "plain" and the parameters {charset: US-ASCII} with
\* the input's own parameters written over them.
C13_DefaultMediaType ==
  NoExplicitMediaType(input) =>
     /\ \A i \in 1..Len(items) :
           items[i].t \notin {"itemMediaType", "itemMediaSep", "itemMediaSubType"}
     /\ Succeeded =>
           /\ ret.du.Type = T(<< "t", "e", "x", "t" >>)
           /\ ret.du.Subtype = T(<< "p", "l", "a", "i", "n" >>)
           /\ ret.du.Params =
                 ExplicitParams(items, 1, << >>, MapSet(EmptyParams, charsetWord, usAscii))

\* An input without a media type and with a parameter a has been decoded:
\* the default charset stands next to a.
C13_Witness ==
  /\ call = 1
  /\ NoExplicitMediaType(input)
  /\ Succeeded
  /\ DOMAIN ret.du.Params = {charsetWord, nameA}
  /\ ret.du.Params[charsetWord] = usAscii
  /\ ret.du.Params[nameA] = T(<< ";", "A" >>)

\* The end of the run of media type characters that starts after the prefix.
TypeNameEnd(s) == runEnd(s, Len(dataPrefix), "mediatype")

\* A media type name, not empty, stands after the prefix and the character
\* after it is not '/'.
TypeNameWithoutSep(s) ==
  /\ HasPrefix(s, dataPrefix)
  /\ TypeNameEnd(s) > Len(dataPrefix)
  /\ TypeNameEnd(s) < Len(s)
  /\ s[TypeNameEnd(s) + 1] # mediaSep

\* The parser has received every item of a lexer that has stopped.
AllItemsRead == lex.state = "closed" /\ chan = << >> /\ nread = Len(items)

\* C14: an input in which a media type name is followed by a character other
\* than '/' is rejected: its items are the itemDataPrefix and the itemError
\* "invalid character for media type" and no other, and DecodeString returns
\* that message as its error and no result; in the items of an accepted
\* input an itemMediaType is followed at once by the itemMediaSep and the
\* itemMediaSubType.
C14_MediaTypeNeedsSep ==
  /\ TypeNameWithoutSep(input) =>
        /\ Len(items) <= 2
        /\ Len(items) >= 1 => items[1].t = "itemDataPrefix"
        /\ Len(items) = 2 => items[2] = ErrorItem("invalid character for media type")
        /\ lex.state = "closed" => Len(items) = 2
        /\ AllItemsRead =>
              /\ Failed
              /\ ret.nil
              /\ ret.err = "invalid character for media type"
  /\ LexAccepted =>
        \A i \in 1..Len(items) :
           items[i].t = "itemMediaType" =>
              /\ i + 2 <= Len(items)
              /\ items[i + 1].t = "itemMediaSep"
              /\ items[i + 2].t = "itemMediaSubType"

\* "data:xx;..." has been rejected with the error of the media type.
C14_Witness ==
  /\ TypeNameWithoutSep(input)
  /\ input[TypeNameEnd(input) + 1] = paramSemicolon
  /\ AllItemsRead
  /\ Failed
  /\ ret.err = "invalid character for media type"
  /\ Len(items) = 2

\* The value of a hexadecimal digit, in either case.
HexDigitValue(c) ==
  CHOOSE v \in 0..15 : c = upperhex(v) \/ (v >= 10 /\ c = Ord("a") + (v - 10))

IsHexDigit(c) ==
  \E v \in 0..15 : c = upperhex(v) \/ (v >= 10 /\ c = Ord("a") + (v - 10))

\* Every '%' of s is followed by two hexadecimal digits.
EveryPercentComplete(s) ==
  \A i \in 1..Len(s) :
     s[i] = Ord("%") => (i + 2 <= Len(s) /\ IsHexDigit(s[i + 1]) /\ IsHexDigit(s[i + 2]))

\* s with every %XX replaced by the byte XX and the rest left as it is.
PercentDecoded(s) ==
  Flatten([i \in 1..Len(s) |->
             IF s[i] = Ord("%")
             THEN << HexDigitValue(s[i + 1]) * 16 + HexDigitValue(s[i + 2]) >>
             ELSE IF (i > 1 /\ s[i - 1] = Ord("%")) \/ (i > 2 /\ s[i - 2] = Ord("%"))
                  THEN << >>
             ELSE << s[i] >>])

\* C15: Unescape fails exactly when its argument holds a '%' that is not
\* followed by two hexadecimal digits; when it succeeds every %XX has become
\* the byte XX and every other character, '+' too, is as it was.
C15_UnescapeFailsIff ==
  esc.phase = "rawunescaped" =>
     /\ esc.back.ok <=> EveryPercentComplete(esc.data)
     /\ ~esc.back.ok => esc.back.err # ""
     /\ esc.back.ok => esc.back.val = PercentDecoded(esc.data)

\* "+%aB" has been unescaped to '+' and the byte 0xAB.
C15_Witness ==
  /\ esc.phase = "rawunescaped"
  /\ esc.data = T(<< "+", "%", "a", "B" >>)
  /\ esc.back.ok
  /\ esc.back.val = << Ord("+"), 171 >>

\* "%4+" has been refused.
C15_WitnessFailure ==
  /\ esc.phase = "rawunescaped"
  /\ esc.data = T(<< "%", "4", "+" >>)
  /\ ~esc.back.ok

\* The text the parameters of du make in the order given: for each name one
\* ";name=" and the escaped value.
RECURSIVE ParamsText(_, _)
ParamsText(du, order) ==
  IF order = << >> THEN << >>
  ELSE T(<< ";" >>) \o Head(order) \o T(<< "=" >>) \o EscapeString(du.Params[Head(order)])
       \o ParamsText(du, Tail(order))

\* The text of du with its parameters in the order given.
SerializedText(du, order) ==
  T(<< "d", "a", "t", "a", ":" >>) \o du.Type \o T(<< "/" >>) \o du.Subtype
  \o ParamsText(du, order)
  \o (IF du.Encoding = "base64" THEN T(<< ";", "b", "a", "s", "e", "6", "4" >>) ELSE << >>)
  \o T(<< "," >>)
  \o (IF du.Encoding = "base64" THEN b64Encode(du.Data.b) ELSE Escape(du.Data.b))

\* C16: for an Encoding of "ascii" or "base64", what WriteTo writes is
\* "data:", Type "/" Subtype, one ";name=" and the escaped value for each
\* entry of Params (in some order of the entries), ";base64" exactly for
\* base64, one ',', and the payload: the base64 text of Data for base64,
\* Escape(Data) for ascii.
C16_SerializedOrder ==
  (wr.phase = "written" /\ wr.du.Encoding \in {"ascii", "base64"}) =>
     \E order \in Orders(DOMAIN wr.du.Params) : wr.out.w = SerializedText(wr.du, order)

\* A base64 DataURL with two parameters has been written, b before a.
C16_Witness ==
  /\ wr.phase = "written"
  /\ wr.du.Encoding = "base64"
  /\ wr.out.w = T(<< "d", "a", "t", "a", ":", "t", "/", "s", ";", "b", "=", "%", "2", "0", "$",
                     ";", "a", "=", "x", ";", "b", "a", "s", "e", "6", "4", ",",
                     "Q", "Q", "=", "=" >>)

\* What WriteTo has written before it looks at the Encoding for the payload.
HeaderText(du, order) ==
  T(<< "d", "a", "t", "a", ":" >>) \o du.Type \o T(<< "/" >>) \o du.Subtype
  \o ParamsText(du, order) \o T(<< "," >>)

\* C17: WriteTo returns an error exactly when Encoding is neither "ascii"
\* nor "base64", and when it does the sink holds the header written before
\* the error.
C17_EncodeErrorIff ==
  wr.phase = "written" =>
     /\ (wr.out.err # "") <=> (wr.du.Encoding \notin {"ascii", "base64"})
     /\ wr.out.err # "" =>
           \E order \in Orders(DOMAIN wr.du.Params) : wr.out.w = HeaderText(wr.du, order)

\* A DataURL with the Encoding "hex" has been written: an error, and the
\* header in the sink.
C17_Witness ==
  /\ wr.phase = "written"
  /\ wr.du.Encoding = "hex"
  /\ wr.du.Data.b # << >>
  /\ wr.out.err # ""
  /\ wr.out.w = T(<< "d", "a", "t", "a", ":", "t", "/", "s", ";", "a", "=", "%", "3", "B", "," >>)

\* An itemLeftStringQuote stands among the items before i, after the last
\* itemParamVal before i.
QuoteSincePrevVal(its, i) ==
  \E j \in 1..(i - 1) :
     /\ its[j].t = "itemLeftStringQuote"
     /\ \A k \in (j + 1)..(i - 1) : its[k].t # "itemParamVal"

\* The two ways a value is decoded, by name.
DecodedBy(how, v) == IF how = "quoted" THEN strconvUnquote(v) ELSE UnescapeToString(v)

\* C18: the parser decodes an itemParamVal by the rules of a quoted string
\* exactly when an itemLeftStringQuote came since the itemParamVal before it,
\* and by percent-unescaping otherwise; the itemParamVal clears the flag, so
\* that the flag is set only between an itemLeftStringQuote and its value.
C18_QuotedFlag ==
  /\ (pc # "panicked" /\ nread >= 1) =>
        (p.unquoteParamVal <=> QuoteSincePrevVal(items, nread + 1))
  /\ (nread >= 1 /\ items[nread].t = "itemParamVal") =>
        LET d == DecodedBy(IF QuoteSincePrevVal(items, nread) THEN "quoted" ELSE "percent",
                           items[nread].val)
        IN  IF d.ok
            THEN /\ pc = "parsing"
                 /\ p.currentAttr \in DOMAIN p.du.Params
                 /\ p.du.Params[p.currentAttr] = d.val
            ELSE Failed /\ ret.err = d.err

\* The parser has just stored ";A" for the unquoted value %3B%41 that comes
\* after a quoted value, and the quoted value has kept its %41.
C18_Witness ==
  /\ call = 1
  /\ pc = "parsing"
  /\ nread >= 1
  /\ items[nread].t = "itemParamVal"
  /\ items[nread].val = T(<< "%", "3", "B", "%", "4", "1" >>)
  /\ HasItem(SubSeq(items, 1, nread - 1), "itemLeftStringQuote")
  /\ p.du.Params[nameA] = T(<< ";", "A" >>)
  /\ nameB \in DOMAIN p.du.Params
  /\ p.du.Params[nameB] = T(<< "\"", ";", "=", "%", "4", "1" >>)

\* The name the itemParamVal at i belongs to: that of the last itemParamAttr
\* before it.
AttrOf(its, i) ==
  its[Max({ a \in 1..(i - 1) : its[a].t = "itemParamAttr" })].val

\* The indices of the values the items give to the name k.
ValsOf(its, k) ==
  { i \in 1..Len(its) :
      /\ its[i].t = "itemParamVal"
      /\ \E a \in 1..(i - 1) : its[a].t = "itemParamAttr"
      /\ AttrOf(its, i) = k }

\* The names the items give a value to.
NamesOf(its) ==
  { AttrOf(its, i) : i \in { j \in 1..Len(its) :
                                /\ its[j].t = "itemParamVal"
                                /\ \E a \in 1..(j - 1) : its[a].t = "itemParamAttr" } }

\* C19: after a successful DecodeString every name the input gives a value
\* to has one entry in Params, with the decoded value of its last occurrence
\* in the input; a name the input does not give is in Params only as the
\* default charset.
C19_LastValueWins ==
  Succeeded =>
     /\ \A k \in NamesOf(items) :
           /\ k \in DOMAIN ret.du.Params
           /\ ret.du.Params[k] = DecodedParamVal(items, Max(ValsOf(items, k))).val
     /\ \A k \in DOMAIN ret.du.Params \ NamesOf(items) :
           /\ k = charsetWord
           /\ ret.du.Params[k] = usAscii
           /\ ~HasItem(items, "itemMediaType")

\* The name a was given twice, "b" and then %3B%41: Params hold ";A" for it,
\* next to the default charset.
C19_Witness ==
  /\ call = 1
  /\ Succeeded
  /\ Cardinality(ValsOf(items, nameA)) = 2
  /\ items[Max(ValsOf(items, nameA))].val = T(<< "%", "3", "B", "%", "4", "1" >>)
  /\ ret.du.Params[nameA] = T(<< ";", "A" >>)
  /\ DOMAIN ret.du.Params = {nameA, charsetWord}
  /\ ret.du.Params[charsetWord] = usAscii

\* C20: the Params of every result a caller holds are what its holder has
\* made of what its own call returned: no other call and no change made
\* through another result has touched them.
C20_FreshParams ==
  \A i \in DOMAIN results : heap[results[i].ref] = results[i].own

\* Three results are held; the holder of the first has deleted its default
\* charset and given it a parameter a, and the third, returned after that,
\* has its default charset and no a.
C20_Witness ==
  /\ Len(results) = 3
  /\ heap[results[1].ref] = MapSet(EmptyParams, nameA, FreshValue)
  /\ results[1].own = MapSet(EmptyParams, nameA, FreshValue)
  /\ heap[results[3].ref] = MapSet(EmptyParams, charsetWord, usAscii)
  /\ results[1].ref # results[3].ref

\* C21: once DecodeString has returned, with a result or with an error, the
\* lexer goroutine of the call is not left sending an item: nothing is on
\* offer on the items channel, which nobody receives from any more.
C21_LexerNotLeftSending ==
  pc = "returned" => chan = << >>

====
